---- MODULE Spec2Model ----
(***************************************************************************)
(* Model of bitrix24/bitrix24.py: the Bitrix24 REST client.                *)
(*                                                                         *)
(* The client is single-threaded and blocking.  One step of the model is   *)
(* one request/response exchange with the remote service (together with    *)
(* all the local code that runs up to the next exchange), or one value     *)
(* handed by the callMethodIter generator to its consumer.  The remote     *)
(* service is the environment: it answers every request with any reply of  *)
(* a bounded set.                                                          *)
(*                                                                         *)
(* Python values are represented as follows.                               *)
(*   dict            a function whose domain is the set of keys            *)
(*   list            a sequence                                            *)
(*   `result` value  a tagged record (DictRes, ListRes, ScalarRes), so     *)
(*                   that values of different shapes stay comparable       *)
(*   text            a sequence of tokens (substring = contiguous          *)
(*                   subsequence); a method name is the sequence of its    *)
(*                   dot-separated segments                                *)
(***************************************************************************)
EXTENDS Integers, Sequences, FiniteSets, Bags, TLC

VARIABLES
    pc,           \* position of the running operation
    op,           \* the public operation in progress and its arguments
    params,       \* `params` of the innermost active frame
    frames,       \* callMethodIter generator frames that wait to yield
    yielded,      \* values the outermost generator has yielded so far
    result_dict,  \* callMethod local
    result_list,  \* callMethod local
    r,            \* callMethod loop variable
    id,           \* callMethodList cursor
    result,       \* callMethodList accumulator
    callerFilter, \* the caller's filter mapping handed to callMethodList
    service,      \* behaviour of the remote service during the operation
    reqs,         \* requests sent during the operation, in order
    replies,      \* replies received during the operation, in order
    sleeps,       \* durations of the sleep() calls of the operation
    ret           \* what the operation delivered to its caller

vars == <<pc, op, params, frames, yielded, result_dict, result_list, r,
          id, result, callerFilter, service, reqs, replies, sleeps, ret>>

-----------------------------------------------------------------------------
(* Bounds of the model *)

MaxPages == 3      \* requests one operation may issue
MaxId    == 2      \* row ids the service makes up
MaxDataId == 4     \* ids of the table behind the well-behaved service
MaxSegments == 3   \* dot-separated segments of a method name
MaxPathSegments == 4   \* path segments of a webhook URL
MaxItems == 2      \* elements of a list or tuple parameter

-----------------------------------------------------------------------------
(* Program constants *)

PageStep     == 50
SleepSeconds == 2
ForcedStart  == -1
DefaultId    == 0

-----------------------------------------------------------------------------
(* Values *)

EmptyDict == [k \in {} |-> 0]

\* dict.update(other)
Update(d, other) ==
    [k \in (DOMAIN d) \cup (DOMAIN other) |->
        IF k \in DOMAIN other THEN other[k] ELSE d[k]]

Row(n) == [id |-> n]

GtId    == ">ID"    \* the cursor clause of a filter
NoneKey == "None"   \* key=None: no key of a result mapping

DictRes(d)   == [t |-> "dict",   d |-> d,         l |-> <<>>, s |-> 0]
ListRes(l)   == [t |-> "list",   d |-> EmptyDict, l |-> l,    s |-> 0]
ScalarRes(s) == [t |-> "scalar", d |-> EmptyDict, l |-> <<>>, s |-> s]

\* the rows with ids in S, in ascending id order
RECURSIVE Ascending(_)
Ascending(S) ==
    IF S = {} THEN <<>>
    ELSE LET m == CHOOSE x \in S : \A y \in S : x <= y
         IN  <<Row(m)>> \o Ascending(S \ {m})

RowLists  == {Ascending(S) : S \in SUBSET (1..MaxId)}
FullPage  == [i \in 1..PageStep |-> Row(1 + (i % MaxId))]
DictKeys  == {"a", "b"}
DictVals  == {<<Row(1)>>, <<Row(2)>>}
Dicts     == UNION {[K -> DictVals] : K \in SUBSET DictKeys}

\* the `result` values the service can send, by the shape of its pages
ResultsOf(mode) ==
    CASE mode = "dict"  -> {DictRes(d) : d \in Dicts}
      [] mode = "list"  -> {ListRes(l) : l \in RowLists \cup {FullPage}}
      [] mode = "mixed" -> {DictRes(EmptyDict), DictRes([a |-> <<Row(1)>>]),
                            ListRes(<<>>), ListRes(<<Row(1)>>),
                            ScalarRes(0), ScalarRes(7)}
      [] mode = "paging" -> {ListRes(<<>>), ListRes(<<Row(1)>>)}

Modes == {"dict", "list", "mixed"}

\* "paging": few results, and the log keeps the paging fields of the pages
IterModes == Modes \cup {"paging"}

QLE       == <<"QUERY_LIMIT_EXCEEDED">>
ErrTexts  == {QLE, QLE \o <<"_detail">>, <<"OTHER">>}

\* Python `a in b` on texts
IsSubstr(a, b) ==
    \E i \in 0..(Len(b) - Len(a)) : SubSeq(b, i + 1, i + Len(a)) = a

-----------------------------------------------------------------------------
(* The remote service *)

Totals == {50, 120}

\* decoded success envelopes: `result`, optional `next`, optional `total`
OkBodies(mode) ==
    LET R == ResultsOf(mode) IN
    {[result |-> x] : x \in R}
    \cup {[result |-> x, total |-> t] : x \in R, t \in Totals}
    \cup {[result |-> x, next |-> PageStep] : x \in R}
    \cup {[result |-> x, next |-> PageStep, total |-> t] : x \in R, t \in Totals}

ErrBodies == {[error |-> e] : e \in ErrTexts}

\* a failure reply: a JSON document with `error`, or a body that is not JSON
Failures ==
    {[json |-> TRUE, body |-> b] : b \in ErrBodies}
    \cup {[json |-> FALSE, raw |-> <<"<html>">>]}

Replies(mode) == {[json |-> TRUE, body |-> b] : b \in OkBodies(mode)} \cup Failures

IsOk(reply) == reply.json /\ "error" \notin DOMAIN reply.body

\* an error reply whose text contains QUERY_LIMIT_EXCEEDED
IsRateLimit(reply) ==
    reply.json /\ "error" \in DOMAIN reply.body /\ IsSubstr(QLE, reply.body.error)

\* what the log keeps of a reply: success envelopes without paging fields
Logged(reply) ==
    IF IsOk(reply) /\ service.mode # "paging"
    THEN [json |-> TRUE, body |-> [result |-> reply.body.result]]
    ELSE reply

\* the service has at most MaxPages pages: the last one carries no `next`
OffsetReplies(n) ==
    IF n < MaxPages THEN Replies(service.mode)
    ELSE {x \in Replies(service.mode) : ~(IsOk(x) /\ "next" \in DOMAIN x.body)}

-----------------------------------------------------------------------------
(* _call_method *)

Methods == {<<"crm", "deal", "list">>, <<"add", "deal">>}

PostHeads == {"add", "update", "delete", "set"}

\* Verb decided by the first segment of the name
VerbByFirstSegment(method) ==
    IF method[1] \in PostHeads THEN "POST" ELSE "GET"

\* method.rsplit('.', 1)[0] in ['add', 'update', 'delete', 'set']
Verb(method) ==
    LET head == IF Len(method) > 1
                THEN SubSeq(method, 1, Len(method) - 1)
                ELSE method
    IN  IF \E w \in PostHeads : head = <<w>> THEN "POST" ELSE "GET"

Request(method, p) == [verb |-> Verb(method), method |-> method, params |-> p]

Unbound == [unbound |-> TRUE]

Return(x)      == [do |-> "return", r |-> x]
Raise(exc, a)  == [do |-> "raise", exc |-> exc, arg |-> a]
Retry          == [do |-> "retry"]

\* the `except ValueError` handler; x is the value of the local `r`
ExceptValueError(x) ==
    IF x = Unbound THEN Raise("UnboundLocalError", Unbound)
    ELSE IF "error" \notin DOMAIN x THEN Raise("KeyError", Unbound)
    ELSE IF ~IsSubstr(x.error, QLE) THEN Raise("BitrixError", x)
    ELSE Retry

\* AfterTry with an error reply taken for an empty last page
AfterTrySwallowing(x) ==
    IF "error" \in DOMAIN x THEN Return([result |-> ListRes(<<>>)]) ELSE Return(x)

\* AfterTry with every error reply retried after a sleep
AfterTryRetrying(x) ==
    IF "error" \in DOMAIN x THEN Retry ELSE Return(x)

\* the code after the try statement; x is the decoded body
AfterTry(x) ==
    IF "error" \in DOMAIN x THEN Raise("BitrixError", x) ELSE Return(x)

\* one attempt of _call_method, given the service's reply: .json() raises
\* ValueError before `r` is assigned when the body is not JSON
call_method(reply) ==
    IF ~reply.json THEN ExceptValueError(Unbound) ELSE AfterTry(reply.body)

NoRet == [kind |-> "none"]
Raised(out) == [kind |-> "raise", exc |-> out.exc, arg |-> out.arg]
Returned(v) == [kind |-> "return", val |-> v]

-----------------------------------------------------------------------------
(* callMethodIter and callMethod *)

IterKwargs == {EmptyDict, [start |-> PageStep]}

\* lines 105-106
IterEntry(kw) ==
    IF "start" \in DOMAIN kw THEN kw ELSE Update(kw, [start |-> 0])

\* IterStep that goes on while total >= start
IterStepAtLeast(x, p) ==
    IF "next" \in DOMAIN x
    THEN IF "total" \notin DOMAIN x THEN "KeyError"
         ELSE IF x.total >= p.start THEN "recurse" ELSE "yield"
    ELSE "yield"

\* line 110
IterStep(x, p) ==
    IF "next" \in DOMAIN x
    THEN IF "total" \notin DOMAIN x THEN "KeyError"
         ELSE IF x.total > p.start THEN "recurse" ELSE "yield"
    ELSE "yield"

\* line 111
Advance(p) == [p EXCEPT !.start = @ + PageStep]

\* MergeList that keeps only the latest page
MergeListReplacing(acc, page) ==
    IF page.t # "dict" /\ page.t = "list" THEN page.l ELSE acc

\* lines 129-132
MergeDict(acc, page) == IF page.t = "dict" THEN Update(acc, page.d) ELSE acc
MergeList(acc, page) ==
    IF page.t # "dict" /\ page.t = "list" THEN acc \o page.l ELSE acc

Truthy(x) ==
    CASE x.t = "dict"   -> DOMAIN x.d # {}
      [] x.t = "list"   -> x.l # <<>>
      [] x.t = "scalar" -> x.s # 0

\* ThreeWay that prefers the sequence to the mapping
ThreeWayListFirst(d, l, last) ==
    IF l # <<>> THEN ListRes(l)
    ELSE IF DOMAIN d # {} THEN DictRes(d)
    ELSE last

\* line 134
ThreeWay(d, l, last) ==
    IF DOMAIN d # {} THEN DictRes(d)
    ELSE IF l # <<>> THEN ListRes(l)
    ELSE last

Idle == pc = "idle"

NoService == [mode |-> "none", data |-> {}]

Start(name) ==
    /\ Idle
    /\ \E m \in Methods, kw \in IterKwargs :
        /\ op' = [name |-> name, method |-> m, kwargs |-> kw,
                  id |-> DefaultId, key |-> NoneKey, pass |-> FALSE]
        /\ params' = IterEntry(kw)
    /\ pc' = "fetch"
    /\ frames' = <<>>
    /\ yielded' = <<>>
    /\ result_dict' = EmptyDict
    /\ result_list' = <<>>
    /\ r' = ScalarRes(0)
    /\ id' = DefaultId
    /\ result' = <<>>
    /\ callerFilter' = EmptyDict
    /\ \E mode \in IterModes : service' = [mode |-> mode, data |-> {}]
    /\ reqs' = <<>>
    /\ replies' = <<>>
    /\ sleeps' = <<>>
    /\ ret' = NoRet

StartIter   == Start("callMethodIter")
StartMethod == Start("callMethod")

\* IterFetch of a generator that yields its page before it recurses
IterFetchStreaming ==
    /\ pc = "fetch"
    /\ Len(reqs) < MaxPages
    /\ \E reply \in OffsetReplies(Len(reqs) + 1) :
        LET out == call_method(reply) IN
        /\ reqs' = Append(reqs, Request(op.method, params))
        /\ replies' = Append(replies, Logged(reply))
        /\ CASE out.do = "retry" ->
                  /\ sleeps' = Append(sleeps, SleepSeconds)
                  /\ UNCHANGED <<pc, params, frames, ret, yielded>>
             [] out.do = "raise" ->
                  /\ pc' = "done"
                  /\ ret' = Raised(out)
                  /\ UNCHANGED <<params, frames, sleeps, yielded>>
             [] out.do = "return" ->
                  LET step == IterStep(out.r, params) IN
                  CASE step = "KeyError" ->
                         /\ pc' = "done"
                         /\ ret' = Raised(Raise("KeyError", Unbound))
                         /\ UNCHANGED <<params, frames, sleeps, yielded>>
                    [] step = "recurse" ->
                         /\ params' = Advance(params)
                         /\ yielded' = Append(yielded, out.r.result)
                         /\ UNCHANGED <<pc, frames, sleeps, ret>>
                    [] step = "yield" ->
                         /\ frames' = Append(frames,
                               [params |-> params, result |-> out.r.result])
                         /\ pc' = "yield"
                         /\ UNCHANGED <<params, sleeps, ret, yielded>>
    /\ UNCHANGED <<op, result_dict, result_list, r, id, result,
                   callerFilter, service>>

\* one request of the innermost generator frame and the code up to the
\* next request or the first yield
IterFetch ==
    /\ pc = "fetch"
    /\ Len(reqs) < MaxPages
    /\ \E reply \in OffsetReplies(Len(reqs) + 1) :
        LET out == call_method(reply) IN
        /\ reqs' = Append(reqs, Request(op.method, params))
        /\ replies' = Append(replies, Logged(reply))
        /\ CASE out.do = "retry" ->
                  /\ sleeps' = Append(sleeps, SleepSeconds)
                  /\ UNCHANGED <<pc, params, frames, ret>>
             [] out.do = "raise" ->
                  /\ pc' = "done"
                  /\ ret' = Raised(out)
                  /\ UNCHANGED <<params, frames, sleeps>>
             [] out.do = "return" ->
                  LET step == IterStep(out.r, params) IN
                  CASE step = "KeyError" ->
                         /\ pc' = "done"
                         /\ ret' = Raised(Raise("KeyError", Unbound))
                         /\ UNCHANGED <<params, frames, sleeps>>
                    [] step = "recurse" ->
                         /\ params' = Advance(params)
                         /\ frames' = Append(frames,
                               [params |-> Advance(params), result |-> out.r.result])
                         /\ UNCHANGED <<pc, sleeps, ret>>
                    [] step = "yield" ->
                         /\ frames' = Append(frames,
                               [params |-> params, result |-> out.r.result])
                         /\ pc' = "yield"
                         /\ UNCHANGED <<params, sleeps, ret>>
    /\ UNCHANGED <<op, yielded, result_dict, result_list, r, id, result,
                   callerFilter, service>>

\* IterYield with the pages handed over in the order they were fetched
IterYieldNatural ==
    /\ pc = "yield"
    /\ frames # <<>>
    /\ LET page == frames[1].result IN
        /\ yielded' = Append(yielded, page)
        /\ frames' = Tail(frames)
        /\ IF op.name = "callMethod"
           THEN /\ result_dict' = MergeDict(result_dict, page)
                /\ result_list' = MergeList(result_list, page)
                /\ r' = page
           ELSE UNCHANGED <<result_dict, result_list, r>>
    /\ UNCHANGED <<pc, op, params, id, result, callerFilter, service,
                   reqs, replies, sleeps, ret>>

\* the innermost waiting frame yields its page (line 114); in callMethod
\* the loop body consumes it
IterYield ==
    /\ pc = "yield"
    /\ frames # <<>>
    /\ LET page == frames[Len(frames)].result IN
        /\ yielded' = Append(yielded, page)
        /\ frames' = SubSeq(frames, 1, Len(frames) - 1)
        /\ IF op.name = "callMethod"
           THEN /\ result_dict' = MergeDict(result_dict, page)
                /\ result_list' = MergeList(result_list, page)
                /\ r' = page
           ELSE UNCHANGED <<result_dict, result_list, r>>
    /\ UNCHANGED <<pc, op, params, id, result, callerFilter, service,
                   reqs, replies, sleeps, ret>>

\* the generator is exhausted; callMethod returns (line 134)
IterEnd ==
    /\ pc = "yield"
    /\ frames = <<>>
    /\ pc' = "done"
    /\ ret' = IF op.name = "callMethod"
              THEN Returned(ThreeWay(result_dict, result_list, r))
              ELSE [kind |-> "exhausted"]
    /\ UNCHANGED <<op, params, frames, yielded, result_dict, result_list, r,
                   id, result, callerFilter, service, reqs, replies, sleeps>>

-----------------------------------------------------------------------------
(* callMethodList *)

ListKwargs == {EmptyDict,
               [start |-> 0, order |-> [ID |-> "desc"], select |-> <<"TITLE">>]}
Filters    == {[TITLE |-> 7], (GtId :> 9) @@ [TITLE |-> 7]}
StartIds   == {DefaultId, 1}
ResultKeys == {NoneKey, "a"}

\* ListEntry that respects a start the caller supplied
ListEntryKeepingStart(kw) ==
    LET p1 == IF "start" \in DOMAIN kw THEN kw
              ELSE Update(kw, [start |-> ForcedStart])
        p2 == Update(p1, [order |-> [ID |-> "asc"]])
    IN  IF "filter" \in DOMAIN p2 THEN p2 ELSE Update(p2, [filter |-> EmptyDict])

\* lines 146-150
ListEntry(kw) ==
    LET p1 == Update(kw, [start |-> ForcedStart])
        p2 == Update(p1, [order |-> [ID |-> "asc"]])
    IN  IF "filter" \in DOMAIN p2 THEN p2 ELSE Update(p2, [filter |-> EmptyDict])

\* SetCursor that leaves a cursor clause that is already there
SetCursorOnce(p, cursor) ==
    IF GtId \in DOMAIN p.filter THEN p
    ELSE [p EXCEPT !.filter = Update(@, (GtId :> cursor))]

\* line 155
SetCursor(p, cursor) == [p EXCEPT !.filter = Update(@, (GtId :> cursor))]

\* lines 157-159: the rows of a page; a scalar `result` stays as it is
Extract(res, key) ==
    IF res.t = "dict"
    THEN ListRes(IF key \in DOMAIN res.d THEN res.d[key] ELSE <<>>)
    ELSE res

\* NextId taken from the first row of the page
NextIdFirst(rows) == rows[1].id

\* line 163
NextId(rows) == rows[Len(rows)].id

\* the well-behaved service: rows of its table with ids above the cursor of
\* the request, in ascending id order
TableReplies(data, cursor) ==
    {[json |-> TRUE, body |-> [result |-> ListRes(Ascending(S))]] :
        S \in SUBSET {d \in data : d > cursor}}

\* any service: success envelopes or failures; its last page is empty
ListReplies(n) ==
    LET all == {[json |-> TRUE, body |-> [result |-> x]] :
                   x \in ResultsOf(service.mode)} \cup Failures
    IN  IF n < MaxPages THEN all
        ELSE {x \in all : IsOk(x) => ~Truthy(x.body.result)}

StartList ==
    /\ Idle
    /\ \E m \in Methods, id0 \in StartIds, key \in ResultKeys,
          kw \in ListKwargs, pass \in BOOLEAN :
        \E f \in IF pass THEN Filters ELSE {EmptyDict} :
            LET kwargs == IF pass THEN Update(kw, [filter |-> f]) ELSE kw IN
            /\ op' = [name |-> "callMethodList", method |-> m, kwargs |-> kwargs,
                      id |-> id0, key |-> key, pass |-> pass]
            /\ params' = ListEntry(kwargs)
            /\ id' = id0
            /\ callerFilter' = f
    /\ \/ \E mode \in Modes : service' = [mode |-> mode, data |-> {}]
       \/ \E data \in SUBSET (1..MaxDataId) :
              service' = [mode |-> "table", data |-> data]
    /\ pc' = "list"
    /\ result' = <<>>
    /\ frames' = <<>>
    /\ yielded' = <<>>
    /\ result_dict' = EmptyDict
    /\ result_list' = <<>>
    /\ r' = ScalarRes(0)
    /\ reqs' = <<>>
    /\ replies' = <<>>
    /\ sleeps' = <<>>
    /\ ret' = NoRet

\* one turn of the while loop: one request and the code up to the next one
ListFetch ==
    /\ pc = "list"
    /\ service.mode # "table" => Len(reqs) < MaxPages
    /\ LET p == SetCursor(params, id) IN
       \E reply \in IF service.mode = "table"
                    THEN TableReplies(service.data, p.filter[GtId])
                    ELSE ListReplies(Len(reqs) + 1) :
        LET out == call_method(reply) IN
        /\ params' = p
        /\ callerFilter' = IF op.pass THEN p.filter ELSE callerFilter
        /\ reqs' = Append(reqs, Request(op.method, p))
        /\ replies' = Append(replies, Logged(reply))
        /\ CASE out.do = "retry" ->
                  /\ sleeps' = Append(sleeps, SleepSeconds)
                  /\ UNCHANGED <<pc, id, result, ret>>
             [] out.do = "raise" ->
                  /\ pc' = "done"
                  /\ ret' = Raised(out)
                  /\ UNCHANGED <<id, result, sleeps>>
             [] out.do = "return" ->
                  LET rows == Extract(out.r.result, op.key) IN
                  IF Truthy(rows)
                  THEN IF rows.t = "list"
                       THEN /\ result' = result \o rows.l
                            /\ id' = NextId(rows.l)
                            /\ UNCHANGED <<pc, sleeps, ret>>
                       ELSE /\ pc' = "done"
                            /\ ret' = Raised(Raise("TypeError", Unbound))
                            /\ UNCHANGED <<id, result, sleeps>>
                  ELSE /\ pc' = "done"
                       /\ ret' = Returned(ListRes(result))
                       /\ UNCHANGED <<id, result, sleeps>>
    /\ UNCHANGED <<op, frames, yielded, result_dict, result_list, r, service>>

-----------------------------------------------------------------------------
(* _call_method on its own, for any method name *)

Segments == PostHeads \cup {"crm", "product"}

RECURSIVE NamesUpTo(_)
NamesUpTo(n) ==
    IF n = 1 THEN {<<x>> : x \in Segments}
    ELSE NamesUpTo(n - 1) \cup
         {Append(m, x) : m \in {q \in NamesUpTo(n - 1) : Len(q) = n - 1},
                         x \in Segments}

MethodNames == NamesUpTo(MaxSegments)

CallReplies ==
    {[json |-> TRUE, body |-> [result |-> x]] : x \in ResultsOf("paging")}
    \cup Failures

StartCall ==
    /\ Idle
    /\ \E m \in MethodNames, kw \in IterKwargs :
        /\ op' = [name |-> "_call_method", method |-> m, kwargs |-> kw,
                  id |-> DefaultId, key |-> NoneKey, pass |-> FALSE]
        /\ params' = kw
    /\ pc' = "call"
    /\ service' = [mode |-> "paging", data |-> {}]
    /\ UNCHANGED <<frames, yielded, result_dict, result_list, r, id, result,
                   callerFilter, reqs, replies, sleeps, ret>>

\* one attempt of _call_method (lines 76-95)
Call ==
    /\ pc = "call"
    /\ Len(reqs) < MaxPages
    /\ \E reply \in CallReplies :
        LET out == call_method(reply) IN
        /\ reqs' = Append(reqs, Request(op.method, params))
        /\ replies' = Append(replies, Logged(reply))
        /\ CASE out.do = "retry" ->
                  /\ sleeps' = Append(sleeps, SleepSeconds)
                  /\ UNCHANGED <<pc, ret>>
             [] out.do = "raise" ->
                  /\ pc' = "done"
                  /\ ret' = Raised(out)
                  /\ UNCHANGED sleeps
             [] out.do = "return" ->
                  /\ pc' = "done"
                  /\ ret' = [kind |-> "return", envelope |-> out.r]
                  /\ UNCHANGED sleeps
    /\ UNCHANGED <<op, params, frames, yielded, result_dict, result_list, r,
                   id, result, callerFilter, service>>

-----------------------------------------------------------------------------
(* __init__ and _prepare_domain.  A text is the sequence of its tokens:   *)
(* scheme, "://", host, then "/" and a segment for every path segment.    *)

DefaultTimeout == 60

Schemes == {"https", "http"}
Hosts == {"example.bitrix24.com", "b24.local"}
PathSegments == {"rest", "1", "33olq"}

RECURSIVE PathsOf(_)
PathsOf(n) ==
    IF n = 0 THEN {<<>>}
    ELSE {p \o <<"/", x>> : p \in PathsOf(n - 1), x \in PathSegments}

Paths ==
    LET whole == UNION {PathsOf(n) : n \in 0..MaxPathSegments}
    IN  whole \cup {Append(p, "/") : p \in whole \ {<<>>}}

Urls == {<<sc, "://", h>> \o p : sc \in Schemes, h \in Hosts, p \in Paths}

Text(toks) == [t |-> "str", text |-> toks]
NonText == {[t |-> "int", text |-> <<>>], [t |-> "NoneType", text |-> <<>>]}
Domains == {Text(u) : u \in Urls} \cup {Text(<<>>)} \cup NonText

\* urlparse(domain): scheme, netloc and path of a URL text
urlparse(text) ==
    [scheme |-> text[1], netloc |-> text[3], path |-> SubSeq(text, 4, Len(text))]

\* str.split('/'): the pieces between the slashes, "" where there is none
RECURSIVE split(_, _)
split(path, piece) ==
    IF path = <<>> THEN <<piece>>
    ELSE IF Head(path) = "/" THEN <<piece>> \o split(Tail(path), "")
    ELSE split(Tail(path), piece \o Head(path))

\* s[a:b] of a Python list
Slice(s, a, b) ==
    SubSeq(s, a + 1, IF b < Len(s) THEN b ELSE Len(s))

Endpoint(scheme, netloc, user_id, code) ==
    <<scheme, "://", netloc, "/", "rest", "/", user_id, "/", code>>

\* _prepare_domain reading user id and code one piece further on
prepare_domain_after_two(domain) ==
    IF domain.t # "str" \/ domain.text = <<>>
    THEN [kind |-> "raise", exc |-> "Exception", msg |-> "Empty domain"]
    ELSE LET o == urlparse(domain.text)
             pair == Slice(split(o.path, ""), 3, 5)
         IN  IF Len(pair) # 2
             THEN [kind |-> "raise", exc |-> "ValueError", msg |-> "unpack"]
             ELSE [kind |-> "return",
                   val |-> Endpoint(o.scheme, o.netloc, pair[1], pair[2])]

\* _prepare_domain testing only for the empty text
prepare_domain_text_assumed(domain) ==
    IF domain.t = "str" /\ domain.text = <<>>
    THEN [kind |-> "raise", exc |-> "Exception", msg |-> "Empty domain"]
    ELSE IF domain.t # "str"
    THEN [kind |-> "raise", exc |-> "AttributeError", msg |-> "decode"]
    ELSE LET o == urlparse(domain.text)
             pair == Slice(split(o.path, ""), 2, 4)
         IN  IF Len(pair) # 2
             THEN [kind |-> "raise", exc |-> "ValueError", msg |-> "unpack"]
             ELSE [kind |-> "return",
                   val |-> Endpoint(o.scheme, o.netloc, pair[1], pair[2])]

\* _prepare_domain (lines 38-45)
prepare_domain(domain) ==
    IF domain.t # "str" \/ domain.text = <<>>
    THEN [kind |-> "raise", exc |-> "Exception", msg |-> "Empty domain"]
    ELSE LET o == urlparse(domain.text)
             pair == Slice(split(o.path, ""), 2, 4)
         IN  IF Len(pair) # 2
             THEN [kind |-> "raise", exc |-> "ValueError", msg |-> "unpack"]
             ELSE [kind |-> "return",
                   val |-> Endpoint(o.scheme, o.netloc, pair[1], pair[2])]

\* Bitrix24(domain): the instance, or the exception that leaves none
Construct ==
    /\ Idle
    /\ \E d \in Domains :
        LET out == prepare_domain(d) IN
        /\ op' = [name |-> "__init__", domain |-> d]
        /\ ret' = IF out.kind = "raise" THEN out
                  ELSE [kind |-> "instance", domain |-> out.val,
                        timeout |-> DefaultTimeout]
    /\ pc' = "done"
    /\ UNCHANGED <<params, frames, yielded, result_dict, result_list, r, id,
                   result, callerFilter, service, reqs, replies, sleeps>>

-----------------------------------------------------------------------------
(* _prepare_params.  A parameter value is a tree: a scalar, a list or     *)
(* tuple of values, or a dict whose items keep their insertion order.     *)
(* The encoded text is the sequence of its tokens.                        *)

Scalar(v) == [t |-> "scalar", v |-> v]
ListOf(xs) == [t |-> "list", items |-> xs]
TupleOf(xs) == [t |-> "tuple", items |-> xs]
DictOf(kvs) == [t |-> "dict", items |-> kvs]
Item(k, v) == [k |-> k, v |-> v]

ParamKeys == {"a", "b"}
Scalars == {Scalar(1), Scalar(2)}
Leaves == Scalars \cup {ListOf(<<>>), TupleOf(<<>>)}

\* {k: v}
OneKey(vals) == {DictOf(<<Item(k, v)>>) : k \in ParamKeys, v \in vals}

\* {k1: v1, k2: v2} in both insertion orders
TwoKeys(vals) ==
    {DictOf(<<Item(k1, v1), Item(k2, v2)>>) :
        k1 \in ParamKeys, k2 \in ParamKeys, v1 \in vals, v2 \in vals}
    \ {DictOf(<<Item(k, v1), Item(k, v2)>>) :
        k \in ParamKeys, v1 \in vals, v2 \in vals}

Elements == Scalars \cup OneKey(Leaves)

RECURSIVE ElementsUpTo(_)
ElementsUpTo(n) ==
    IF n = 0 THEN {<<>>}
    ELSE ElementsUpTo(n - 1) \cup
         {Append(xs, x) : xs \in {q \in ElementsUpTo(n - 1) : Len(q) = n - 1},
                          x \in Elements}

NonEmptySeqs ==
    LET xss == ElementsUpTo(MaxItems) \ {<<>>}
    IN  {ListOf(xs) : xs \in xss} \cup {TupleOf(xs) : xs \in xss}

Inner == Leaves \cup NonEmptySeqs
Mappings == {DictOf(<<>>)} \cup OneKey(Inner) \cup TwoKeys(Leaves)
Small == Leaves \cup {ListOf(<<Scalar(1), Scalar(2)>>),
                      DictOf(<<Item("b", Scalar(1))>>)}

ParamTrees ==
    {DictOf(<<>>)}
    \cup OneKey(Inner \cup Mappings \cup OneKey(OneKey(Leaves)))
    \cup TwoKeys(Small)

isdict(value) == value.t = "dict"

\* the sequence test taking the empty list and tuple as well
IsSequenceAny(value) == value.t \in {"list", "tuple"}

\* (isinstance(value, list) or isinstance(value, tuple)) and len(value) > 0
IsSequence(value) == value.t \in {"list", "tuple"} /\ Len(value.items) > 0

\* str(value) as format() writes it
Str(value) ==
    CASE value.t = "scalar" -> ToString(value.v)
      [] value.t = "list" /\ value.items = <<>> -> "[]"
      [] value.t = "tuple" /\ value.items = <<>> -> "()"

\* "{0}[{1}]".format(prev, key)
Bracket(prev, key) == prev \o <<"[", key, "]">>

\* "...={v}&"
Pair(key, value) == key \o <<"=", Str(value), "&">>

RECURSIVE prepare_params(_, _)
RECURSIVE EachItem(_, _, _)
RECURSIVE Enumerate(_, _, _, _)

\* for offset, val in enumerate(value) (lines 57-66)
Enumerate(value, prev, key, offset) ==
    IF offset >= Len(value.items) THEN <<>>
    ELSE LET val == value.items[offset + 1]
             idx == ToString(offset)
             one == IF isdict(val)
                    THEN prepare_params(val, Bracket(Bracket(prev, key), idx))
                    ELSE IF prev # <<>>
                    THEN Pair(Bracket(Bracket(prev, key), idx), val)
                    ELSE Pair(Bracket(<<key>>, idx), val)
         IN  one \o Enumerate(value, prev, key, offset + 1)

\* for key, value in params.items() (lines 51-71)
EachItem(items, prev, i) ==
    IF i > Len(items) THEN <<>>
    ELSE LET key == items[i].k
             value == items[i].v
             one == IF isdict(value)
                    THEN prepare_params(value,
                             IF prev # <<>> THEN Bracket(prev, key) ELSE <<key>>)
                    ELSE IF IsSequence(value)
                    THEN Enumerate(value, prev, key, 0)
                    ELSE IF prev # <<>>
                    THEN Pair(Bracket(prev, key), value)
                    ELSE Pair(<<key>>, value)
         IN  one \o EachItem(items, prev, i + 1)

\* _prepare_params (lines 47-72)
prepare_params(p, prev) ==
    IF isdict(p) THEN EachItem(p.items, prev, 1) ELSE <<>>

Encode ==
    /\ Idle
    /\ \E p \in ParamTrees :
        /\ op' = [name |-> "_prepare_params", params |-> p]
        /\ ret' = [kind |-> "return", text |-> prepare_params(p, <<>>)]
    /\ pc' = "done"
    /\ UNCHANGED <<params, frames, yielded, result_dict, result_list, r, id,
                   result, callerFilter, service, reqs, replies, sleeps>>

-----------------------------------------------------------------------------

Init ==
    /\ pc = "idle"
    /\ op = [name |-> "none", method |-> <<>>, kwargs |-> EmptyDict,
             id |-> DefaultId, key |-> NoneKey, pass |-> FALSE]
    /\ params = EmptyDict
    /\ frames = <<>>
    /\ yielded = <<>>
    /\ result_dict = EmptyDict
    /\ result_list = <<>>
    /\ r = ScalarRes(0)
    /\ id = DefaultId
    /\ result = <<>>
    /\ callerFilter = EmptyDict
    /\ service = NoService
    /\ reqs = <<>>
    /\ replies = <<>>
    /\ sleeps = <<>>
    /\ ret = NoRet

Next ==
    \/ StartIter
    \/ StartMethod
    \/ IterFetch
    \/ IterYield
    \/ IterEnd
    \/ StartList
    \/ ListFetch
    \/ StartCall
    \/ Call
    \/ Construct
    \/ Encode

Spec == Init /\ [][Next]_vars

\* the calling thread keeps running its loop and the service keeps answering
LiveSpec == Spec /\ WF_vars(ListFetch)

-----------------------------------------------------------------------------
(* Properties *)

Last(q) == q[Len(q)]

RateLimitReplies == {i \in 1..Len(replies) : IsRateLimit(replies[i])}

\* an error reply whose text is no rate-limit signal
IsOtherError(reply) ==
    reply.json /\ "error" \in DOMAIN reply.body /\ ~IsSubstr(QLE, reply.body.error)

\* C1: every rate-limit response is followed by exactly one 2-second sleep
\* and a retry with the same method and parameters, and the caller never
\* sees an error because of it.
C1_RateLimitAbsorbed ==
    /\ Len(sleeps) = Cardinality(RateLimitReplies)
    /\ \A i \in 1..Len(sleeps) : sleeps[i] = SleepSeconds
    /\ \A i \in RateLimitReplies :
        /\ ret.kind # "raise"
        /\ i < Len(reqs) => reqs[i + 1] = reqs[i]

\* C2: a JSON reply with an `error` that is no rate-limit signal ends the
\* call at once with BitrixError carrying the decoded body: it is the last
\* reply of the call, no sleep follows it and no request follows it.
C2_OtherErrorRaises ==
    \A i \in 1..Len(replies) :
        IsOtherError(replies[i]) =>
            /\ i = Len(replies)
            /\ Len(reqs) = i
            /\ Len(sleeps) < i
            /\ pc = "done"
            /\ ret.kind = "raise"
            /\ ret.exc = "BitrixError"
            /\ ret.arg = replies[i].body

C2_Witness ==
    /\ pc = "done"
    /\ Len(replies) = 2
    /\ IsOtherError(replies[2])
    /\ ret.kind = "raise"

\* C3: a reply that is not JSON ends the call with BitrixError carrying the
\* raw response, with no other kind of failure and no retry.
C3_UndecodableRaisesBitrixError ==
    \A i \in 1..Len(replies) :
        ~replies[i].json =>
            /\ i = Len(replies)
            /\ Len(reqs) = i
            /\ pc = "done"
            /\ ret.kind = "raise"
            /\ ret.exc = "BitrixError"

-----------------------------------------------------------------------------

AllOk == \A i \in 1..Len(replies) : IsOk(replies[i])

\* the `result` of the i-th page received
Page(i) == replies[i].body.result

AllShaped(t) == AllOk /\ \A i \in 1..Len(replies) : Page(i).t = t

MethodReturned ==
    op.name = "callMethod" /\ pc = "done" /\ ret.kind = "return"

BagOf(q) ==
    [x \in {q[i] : i \in DOMAIN q} |-> Cardinality({i \in DOMAIN q : q[i] = x})]

\* the rows of the first n pages, as a bag
RECURSIVE RowsSent(_)
RowsSent(n) == IF n = 0 THEN EmptyBag ELSE RowsSent(n - 1) (+) BagOf(Page(n).l)

RECURSIVE RowCount(_)
RowCount(n) == IF n = 0 THEN 0 ELSE RowCount(n - 1) + Len(Page(n).l)

\* C4: callMethod over list-shaped pages returns a sequence with as many
\* elements as the pages hold together, and with every row as many times
\* as the service sent it.
C4_ListPagesKept ==
    (MethodReturned /\ AllShaped("list")) =>
        /\ ret.val.t = "list"
        /\ Len(ret.val.l) = RowCount(Len(replies))
        /\ BagOf(ret.val.l) = RowsSent(Len(replies))

C4_Witness ==
    /\ MethodReturned
    /\ AllShaped("list")
    /\ Len(replies) = 3
    /\ \A i \in 1..3 : reqs[i].params.start = (i - 1) * PageStep
    /\ Len(Page(1).l) = PageStep
    /\ Len(Page(2).l) = PageStep
    /\ Len(Page(3).l) \in 1..(PageStep - 1)
    /\ Len(ret.val.l) = 2 * PageStep + Len(Page(3).l)

\* the last page that holds key k
LastPageWith(k) ==
    CHOOSE i \in 1..Len(replies) :
        /\ k \in DOMAIN Page(i).d
        /\ \A j \in (i + 1)..Len(replies) : k \notin DOMAIN Page(j).d

\* C5: callMethod over dict-shaped pages returns a mapping that holds every
\* key of every page, each with the value of the last page (highest start
\* offset) that holds the key.
C5_LastPageWins ==
    (MethodReturned /\ AllShaped("dict")) =>
        /\ ret.val.t = "dict"
        /\ \A i \in 1..Len(replies) : \A k \in DOMAIN Page(i).d :
            /\ k \in DOMAIN ret.val.d
            /\ ret.val.d[k] = Page(LastPageWith(k)).d[k]

\* the aggregation of the first n pages in natural page order
RECURSIVE NaturalDict(_)
NaturalDict(n) ==
    IF n = 0 THEN EmptyDict
    ELSE IF Page(n).t = "dict" THEN Update(NaturalDict(n - 1), Page(n).d)
    ELSE NaturalDict(n - 1)

RECURSIVE NaturalList(_)
NaturalList(n) ==
    IF n = 0 THEN <<>>
    ELSE IF Page(n).t = "list" THEN NaturalList(n - 1) \o Page(n).l
    ELSE NaturalList(n - 1)

NaturalResult ==
    LET n == Len(replies) IN
    IF DOMAIN NaturalDict(n) # {} THEN DictRes(NaturalDict(n))
    ELSE IF NaturalList(n) # <<>> THEN ListRes(NaturalList(n))
    ELSE Page(n)

\* C6: over pages that are all list-shaped or all dict-shaped, callMethod
\* returns what merging the same pages in natural page order returns.
C6_OrderInsensitive ==
    (MethodReturned /\ (AllShaped("list") \/ AllShaped("dict"))) =>
        ret.val = NaturalResult

IterOp == op.name \in {"callMethodIter", "callMethod"}

\* C7: the generator yields the fetched pages last page first: nothing
\* before the last request, then page k, ..., page 1, page 0, each once.
C7_ReverseEmission ==
    IterOp =>
        /\ pc = "fetch" => yielded = <<>>
        /\ (pc = "yield" \/ (pc = "done" /\ ret.kind # "raise")) =>
            /\ AllOk
            /\ Len(yielded) + Len(frames) = Len(replies)
            /\ \A j \in 1..Len(yielded) : yielded[j] = Page(Len(replies) - j + 1)
        /\ (pc = "done" /\ ret.kind # "raise") => Len(yielded) = Len(replies)

C7_Witness ==
    /\ op.name = "callMethodIter"
    /\ pc = "done"
    /\ ret.kind = "exhausted"
    /\ Len(replies) = 3
    /\ yielded = <<Page(3), Page(2), Page(1)>>
    /\ Page(1) # Page(2)
    /\ Page(2) # Page(3)
    /\ Page(1) # Page(3)

\* C8: callMethod returns the merged mapping when it is not empty, else the
\* accumulated sequence when it is not empty, else the last page yielded;
\* a single page whose result is a scalar is returned as that scalar.
C8_ThreeWayResult ==
    MethodReturned =>
        /\ DOMAIN result_dict # {} => ret.val = DictRes(result_dict)
        /\ (DOMAIN result_dict = {} /\ result_list # <<>>) =>
               ret.val = ListRes(result_list)
        /\ (DOMAIN result_dict = {} /\ result_list = <<>>) =>
               ret.val = Last(yielded)
        /\ (Len(replies) = 1 /\ Page(1).t = "scalar") => ret.val = Page(1)

C8_Witness ==
    /\ MethodReturned
    /\ Len(replies) = 1
    /\ Page(1) = ScalarRes(7)
    /\ ret.val = ScalarRes(7)

-----------------------------------------------------------------------------

ListOp == op.name = "callMethodList"

\* the rows callMethodList takes from the i-th page
RowsOf(i) == Extract(Page(i), op.key).l

\* the `>ID` value of the i-th request
Cursor(i) == reqs[i].params.filter[GtId]

RECURSIVE RowsUpTo(_)
RowsUpTo(n) == IF n = 0 THEN <<>> ELSE RowsUpTo(n - 1) \o RowsOf(n)

RowPages ==
    AllOk /\ \A i \in 1..Len(replies) : Extract(Page(i), op.key).t = "list"

\* C9: over row pages callMethodList goes on until the first empty page and
\* no further: k non-empty pages and one empty page take k+1 requests; the
\* first request filters on the caller's id, each later one on the id of the
\* last row of the page before; the result is the pages in fetch order.
C9_CursorDrain ==
    (ListOp /\ RowPages) =>
        /\ Len(reqs) = Len(replies)
        /\ \A i \in 1..(Len(replies) - 1) : RowsOf(i) # <<>>
        /\ \A i \in 1..Len(reqs) :
               Cursor(i) = IF i = 1 THEN op.id ELSE Last(RowsOf(i - 1)).id
        /\ pc = "done" <=> (replies # <<>> /\ RowsOf(Len(replies)) = <<>>)
        /\ pc = "done" => ret = Returned(ListRes(RowsUpTo(Len(replies) - 1)))

C9_Witness ==
    /\ ListOp
    /\ pc = "done"
    /\ Len(reqs) = 3
    /\ RowPages
    /\ RowsOf(1) = <<Row(1), Row(2)>>
    /\ RowsOf(2) = <<Row(3)>>
    /\ RowsOf(3) = <<>>
    /\ <<Cursor(1), Cursor(2), Cursor(3)>> = <<0, 2, 3>>
    /\ ret = Returned(ListRes(<<Row(1), Row(2), Row(3)>>))

TableOp == ListOp /\ service.mode = "table"

C10_Safe ==
    TableOp =>
        /\ \A i, j \in 1..Len(reqs) : i < j => Cursor(i) < Cursor(j)
        /\ \A i, j \in 1..Len(result) : i < j => result[i].id # result[j].id
        /\ pc = "done" => ret = Returned(ListRes(result))

\* C10: against a service that answers each request with rows of a finite
\* table whose ids are above the request's cursor, in ascending order, the
\* cursor grows from each request to the next, no id is returned twice, and
\* callMethodList terminates.
C10_CursorProgress ==
    /\ []C10_Safe
    /\ (TableOp /\ pc = "list") ~> (TableOp /\ pc = "done")

C10_Witness ==
    /\ TableOp
    /\ pc = "done"
    /\ Len(reqs) = 4
    /\ \A i \in 1..3 : Cursor(i) < Cursor(i + 1)
    /\ Len(result) = 4
    /\ ret.kind = "return"

-----------------------------------------------------------------------------

IsJsonError(reply) == reply.json /\ "error" \in DOMAIN reply.body

\* C11: when a request of callMethod or callMethodList is answered with an
\* error, also after pages that were fetched successfully, the operation
\* ends with BitrixError and hands no value to the caller.
C11_NoPartialResult ==
    op.name \in {"callMethod", "callMethodList"} =>
        \A i \in 1..Len(replies) :
            IsJsonError(replies[i]) =>
                /\ pc = "done"
                /\ ret.kind = "raise"
                /\ ret.exc = "BitrixError"
                /\ "val" \notin DOMAIN ret
                /\ op.name = "callMethod" => yielded = <<>>

C11_Witness ==
    /\ op.name = "callMethodList"
    /\ Len(replies) = 3
    /\ IsJsonError(replies[3])
    /\ Len(result) >= 2
    /\ ret.kind = "raise"
    /\ ret.exc = "BitrixError"

-----------------------------------------------------------------------------

Forced == {"start", "order", "filter"}

\* the filter mapping the caller handed in, as it was at the call
FilterGiven == IF op.pass THEN op.kwargs.filter ELSE EmptyDict

\* C17: every request of callMethodList carries start=-1, order={ID: asc}
\* and a filter whose `>ID` clause is the cursor at that moment, whatever
\* the caller supplied for them; the caller's other filter clauses and other
\* parameters are carried unchanged.
C17_RequestInvariant ==
    [][(ListOp /\ reqs' # reqs) =>
          LET p == Last(reqs').params IN
          /\ p.start = ForcedStart
          /\ p.order = [ID |-> "asc"]
          /\ p.filter[GtId] = id
          /\ DOMAIN p.filter = DOMAIN FilterGiven \cup {GtId}
          /\ \A k \in DOMAIN FilterGiven \ {GtId} : p.filter[k] = FilterGiven[k]
          /\ DOMAIN p = DOMAIN op.kwargs \cup Forced
          /\ \A k \in DOMAIN op.kwargs \ Forced : p[k] = op.kwargs[k]]_vars

C17_Witness ==
    /\ ListOp
    /\ op.pass
    /\ op.kwargs.filter = (GtId :> 9) @@ [TITLE |-> 7]
    /\ "select" \in DOMAIN op.kwargs
    /\ op.kwargs.start = 0
    /\ op.kwargs.order = [ID |-> "desc"]
    /\ Len(reqs) = 2
    /\ reqs[2].params.start = ForcedStart
    /\ reqs[2].params.order = [ID |-> "asc"]
    /\ reqs[2].params.filter = (GtId :> 2) @@ [TITLE |-> 7]
    /\ reqs[2].params.select = op.kwargs.select

\* C20: callMethodList leaves the filter mapping of its caller as it was
\* handed in: no `>ID` clause is added to it or changed in it.
C20_CallerFilterUntouched ==
    (ListOp /\ op.pass) => callerFilter = op.kwargs.filter

-----------------------------------------------------------------------------

PagingOp == IterOp /\ service.mode = "paging"

\* the start the caller supplied, 0 when none
FirstStart == IF "start" \in DOMAIN op.kwargs THEN op.kwargs.start ELSE 0

\* the i-th envelope has `next` and a total above the start of its request
More(i) ==
    /\ IsOk(replies[i])
    /\ "next" \in DOMAIN replies[i].body
    /\ "total" \in DOMAIN replies[i].body
    /\ replies[i].body.total > reqs[i].params.start

\* C16: the requests of callMethodIter carry start = s, s+50, s+100, ...;
\* after each envelope the next request is issued exactly when the envelope
\* has `next` and total > start, so none follows the first envelope without.
C16_OffsetStepping ==
    /\ IterOp =>
          \A i \in 1..Len(reqs) :
              reqs[i].params.start = FirstStart + (i - 1) * PageStep
    /\ PagingOp =>
          /\ \A i \in 1..(Len(replies) - 1) : More(i)
          /\ replies # <<>> => (pc = "fetch" <=> More(Len(replies)))

C16_Witness ==
    /\ PagingOp
    /\ pc = "yield"
    /\ Len(reqs) = 2
    /\ reqs[1].params.start = PageStep
    /\ reqs[2].params.start = 2 * PageStep
    /\ More(1)
    /\ "next" \in DOMAIN replies[2].body
    /\ "total" \in DOMAIN replies[2].body
    /\ replies[2].body.total <= reqs[2].params.start

\* C19: callMethodIter issues all its requests before it yields the first
\* page: once a page has been yielded no request follows, and a failed
\* request is raised while nothing has been yielded.
C19_RequestsBeforeYields ==
    [][IterOp =>
          /\ yielded # <<>> => reqs' = reqs
          /\ yielded' # yielded => pc' # "fetch"
          /\ ret'.kind = "raise" => yielded' = <<>>]_vars

C19_Witness ==
    /\ op.name = "callMethodIter"
    /\ pc = "yield"
    /\ Len(reqs) = 3
    /\ Len(yielded) = 1
    /\ Len(frames) = 2

-----------------------------------------------------------------------------

\* C15 as claimed: a request is a POST exactly when the first segment of
\* its method name is one of add, update, delete, set.
C15_PostByFirstSegment ==
    \A i \in 1..Len(reqs) :
        reqs[i].verb = "POST" <=> reqs[i].method[1] \in PostHeads

\* C15: a request is a POST exactly when the method name has at most two
\* segments and its first segment is one of add, update, delete, set (the
\* text before the last dot is one of the four words); any other is a GET.
C15_PostByTextBeforeLastDot ==
    \A i \in 1..Len(reqs) :
        /\ reqs[i].verb \in {"POST", "GET"}
        /\ reqs[i].verb = "POST" <=>
               (Len(reqs[i].method) <= 2 /\ reqs[i].method[1] \in PostHeads)

C15_Witness ==
    /\ op.name = "_call_method"
    /\ pc = "done"
    /\ \/ reqs[1].method = <<"add", "crm", "product">> /\ reqs[1].verb = "GET"
       \/ reqs[1].method = <<"crm", "product", "add">> /\ reqs[1].verb = "GET"
       \/ reqs[1].method = <<"add", "product">> /\ reqs[1].verb = "POST"

-----------------------------------------------------------------------------

Constructed == op.name = "__init__" /\ pc = "done"

\* C12 as claimed: scheme://host/seg0/seg1/<uid>/<code>/... gives the
\* endpoint scheme://host/rest/<uid>/<code>.
C12_EndpointAfterTwoSegments ==
    (Constructed /\ Len(op.domain.text) >= 11) =>
        LET u == op.domain.text IN
        /\ ret.kind = "instance"
        /\ ret.domain = <<u[1], "://", u[3], "/", "rest", "/", u[9], "/", u[11]>>

\* C12: for every URL scheme://host/seg0/<uid>/<code>/... (any scheme, host,
\* seg0, uid, code, with or without trailing segments) constructing the
\* client yields the endpoint scheme://host/rest/<uid>/<code>: user id and
\* code are the second and third path segments.
C12_EndpointAfterOneSegment ==
    (Constructed /\ Len(op.domain.text) >= 9) =>
        LET u == op.domain.text IN
        /\ ret.kind = "instance"
        /\ ret.domain = <<u[1], "://", u[3], "/", "rest", "/", u[7], "/", u[9]>>

C12_Witness ==
    /\ Constructed
    /\ op.domain.text = <<"https", "://", "example.bitrix24.com", "/", "rest",
                          "/", "1", "/", "33olq", "/", "rest">>
    /\ ret.kind = "instance"
    /\ ret.domain = <<"https", "://", "example.bitrix24.com", "/", "rest",
                      "/", "1", "/", "33olq">>

BadDomain == op.domain.t # "str" \/ op.domain.text = <<>>

\* C13 as claimed: an empty or non-text domain fails construction with the
\* error kind InvalidDomain.
C13_InvalidDomainRaised ==
    (Constructed /\ BadDomain) =>
        ret.kind = "raise" /\ ret.exc = "InvalidDomain"

\* C13: an empty or non-text domain fails construction with a plain
\* Exception carrying the message 'Empty domain', and no instance is made.
C13_EmptyDomainException ==
    (Constructed /\ BadDomain) =>
        /\ ret.kind = "raise"
        /\ ret.exc = "Exception"
        /\ ret.msg = "Empty domain"
        /\ "domain" \notin DOMAIN ret

C13_Witness ==
    /\ Constructed
    /\ op.domain.t = "NoneType"
    /\ ret = [kind |-> "raise", exc |-> "Exception", msg |-> "Empty domain"]

-----------------------------------------------------------------------------

Encoded == op.name = "_prepare_params" /\ pc = "done"

Contains(text, part) ==
    \E i \in 0..(Len(text) - Len(part)) :
        SubSeq(text, i + 1, i + Len(part)) = part

IsEmptySeq(value) == value.t \in {"list", "tuple"} /\ value.items = <<>>

EmptyMarks == {"[]", "()"}

\* C14 as claimed: an empty list or tuple, at top level or nested, leaves
\* no pair in the encoded text, and {a: []} encodes to the empty text.
C14_EmptySequencesDropped ==
    Encoded =>
        /\ \A i \in 1..Len(ret.text) : ret.text[i] \notin EmptyMarks
        /\ op.params = DictOf(<<Item("a", ListOf(<<>>))>>) => ret.text = <<>>

\* C14: an empty list or tuple is encoded like a scalar: its key emits
\* key=[]& (key=()& for a tuple) at top level and parent[key]=[]& inside a
\* mapping; {a: []} encodes to a=[]&.
C14_EmptySequencesAsScalars ==
    Encoded =>
        /\ \A i \in 1..Len(op.params.items) :
             LET it == op.params.items[i] IN
             /\ IsEmptySeq(it.v) =>
                    Contains(ret.text, <<it.k, "=", Str(it.v), "&">>)
             /\ isdict(it.v) =>
                    \A j \in 1..Len(it.v.items) :
                        LET in == it.v.items[j] IN
                        IsEmptySeq(in.v) =>
                            Contains(ret.text,
                                <<it.k, "[", in.k, "]", "=", Str(in.v), "&">>)
        /\ op.params = DictOf(<<Item("a", ListOf(<<>>))>>) =>
               ret.text = <<"a", "=", "[]", "&">>

C14_Witness ==
    /\ Encoded
    /\ op.params = DictOf(<<Item("b", DictOf(<<Item("a", TupleOf(<<>>)),
                                              Item("b", ListOf(<<>>))>>))>>)
    /\ ret.text = <<"b", "[", "a", "]", "=", "()", "&",
                    "b", "[", "b", "]", "=", "[]", "&">>

\* the first token of every pair of an encoded text
PairStarts(text) ==
    {text[i] : i \in {j \in 1..Len(text) : j = 1 \/ text[j - 1] = "&"}}

TopKeys == {op.params.items[i].k : i \in 1..Len(op.params.items)}

\* C18: nested structures follow one bracket scheme: {a: {b: 1}} gives
\* a[b]=1&, {a: [1, 2]} gives a[0]=1&a[1]=2&, {b: {a: [1]}} gives
\* b[a][0]=1&, {a: [{b: 1}]} gives a[0][b]=1&, pairs come in insertion and
\* index order, and every emitted key begins with its top-level key.
C18_BracketScheme ==
    Encoded =>
        /\ op.params = DictOf(<<Item("a", DictOf(<<Item("b", Scalar(1))>>))>>)
               => ret.text = <<"a", "[", "b", "]", "=", "1", "&">>
        /\ op.params = DictOf(<<Item("a", ListOf(<<Scalar(1), Scalar(2)>>))>>)
               => ret.text = <<"a", "[", "0", "]", "=", "1", "&",
                               "a", "[", "1", "]", "=", "2", "&">>
        /\ op.params = DictOf(<<Item("b", DictOf(<<Item("a",
                                    ListOf(<<Scalar(1)>>))>>))>>)
               => ret.text = <<"b", "[", "a", "]", "[", "0", "]", "=", "1", "&">>
        /\ op.params = DictOf(<<Item("a", ListOf(<<DictOf(<<Item("b",
                                    Scalar(1))>>)>>))>>)
               => ret.text = <<"a", "[", "0", "]", "[", "b", "]", "=", "1", "&">>
        /\ PairStarts(ret.text) \subseteq TopKeys

====
